---- MODULE Spec2Model ----
(***************************************************************************)
(* State-machine model of STEPProcessorWeb (STEPViewer/src/main_web.cpp),  *)
(* the kernel-free STEP loader: entity parser, bounding-box extractor,     *)
(* UCS builder and box mesh builder, as compiled with __EMSCRIPTEN__       *)
(* defined (the build in which LoadSTEPFile reads the file).               *)
(*                                                                         *)
(* Numbers.  The program computes in double.  Every value it meets here is *)
(* a dyadic rational m / 2^e, which a double holds exactly, so a number is *)
(* the record [m |-> m, e |-> e] in lowest terms (e = 0 or m odd) and the  *)
(* arithmetic below is the exact arithmetic of those doubles.              *)
(*                                                                         *)
(* Text.  A line of the file is a sequence of tokens.  A token is one      *)
(* character of punctuation or white space, an unsigned decimal numeral    *)
(* (a run of digits, with its value) or a word (a run of letters such as   *)
(* CARTESIAN_POINT, or one of the section markers DATA; ENDSEC; HEADER;    *)
(* which end in a semicolon).  Positions count tokens, from 0 as in C++.   *)
(***************************************************************************)
EXTENDS Integers, Sequences, FiniteSets, TLC

VARIABLES
    m_currentFile,   \* std::string m_currentFile
    m_fileLoaded,    \* bool m_fileLoaded
    m_ucs,           \* UCS m_ucs
    m_boundingBox,   \* BoundingBox m_boundingBox
    m_stepData,      \* std::vector<std::string> m_stepData
    m_mesh,          \* MeshData m_mesh
    m_entities,      \* std::unordered_map<int, STEPEntity> m_entities
    pre,             \* the session fields as they were when the last call began
    call             \* the last call: its name, its arguments, the dimensions
                     \* CreateBoxMesh was given in it, and what it returned
                     \* (a bool, a count, a buffer or the text of an info string)

vars == <<m_currentFile, m_fileLoaded, m_ucs, m_boundingBox, m_stepData,
          m_mesh, m_entities, pre, call>>

(***************************************************************************)
(* Exact arithmetic of the doubles the program meets.                      *)
(***************************************************************************)
Abs(n) == IF n < 0 THEN -n ELSE n

MaxOf(a, b) == IF a >= b THEN a ELSE b

RECURSIVE Norm(_, _)
Norm(m, e) ==
    IF e > 0 /\ m % 2 = 0 THEN Norm(m \div 2, e - 1) ELSE [m |-> m, e |-> e]

R(n) == [m |-> n, e |-> 0]

Num(a, e) == a.m * (2 ^ (e - a.e))

Add(a, b) == Norm(Num(a, MaxOf(a.e, b.e)) + Num(b, MaxOf(a.e, b.e)), MaxOf(a.e, b.e))

Neg(a) == [m |-> -a.m, e |-> a.e]

Sub(a, b) == Add(a, Neg(b))

Mul(a, b) == Norm(a.m * b.m, a.e + b.e)

Half(a) == Norm(a.m, a.e + 1)

\* The integer part (towards minus infinity) and the fraction, in units of 1 / 2^e.
Floor(a) == a.m \div (2 ^ a.e)

Frac(a, e) == (a.m % (2 ^ a.e)) * (2 ^ (e - a.e))

Lt(a, b) ==
    IF Floor(a) # Floor(b) THEN Floor(a) < Floor(b)
    ELSE Frac(a, MaxOf(a.e, b.e)) < Frac(b, MaxOf(a.e, b.e))

Ge(a, b) == ~Lt(a, b)

Gt(a, b) == Lt(b, a)

MinR(a, b) == IF Lt(b, a) THEN b ELSE a

MaxR(a, b) == IF Lt(a, b) THEN b ELSE a

\* The largest r with r * r <= n, for lo * lo <= n < (hi + 1) * (hi + 1).
RECURSIVE ISqrt(_, _, _)
ISqrt(n, lo, hi) ==
    IF lo >= hi THEN lo
    ELSE IF ((lo + hi + 1) \div 2) * ((lo + hi + 1) \div 2) <= n
         THEN ISqrt(n, (lo + hi + 1) \div 2, hi)
         ELSE ISqrt(n, lo, ((lo + hi + 1) \div 2) - 1)

\* The square root of m / 2^e for e even, cut to a multiple of 1 / 2^(e/2).
SqrtEven(m, e) == Norm(ISqrt(m, 0, IF m < 46340 THEN m ELSE 46340), e \div 2)

\* std::sqrt of a >= 0: exact when a is the square of a dyadic rational, which it
\* is for every vector this program measures (they are parallel to an axis);
\* otherwise cut to the next lower dyadic of the same resolution.
Sqrt(a) == IF a.e % 2 = 0 THEN SqrtEven(a.m, a.e) ELSE SqrtEven(2 * a.m, a.e + 1)

\* n / d for integers, d # 0: exact when the quotient is an integer, otherwise
\* cut to a multiple of 1/1024.
DivInt(n, d) == IF n % d = 0 THEN R(n \div d) ELSE Norm((n * 1024) \div d, 10)

\* a / b for b > 0: the quotient is -1, 0 or 1 for every vector this program
\* normalises.
Div(a, b) == DivInt(Num(a, MaxOf(a.e, b.e)), Num(b, MaxOf(a.e, b.e)))

\* The number of low bits a significand n >= 2^24 loses in a float.
RECURSIVE ExcessBits(_, _)
ExcessBits(n, k) == IF n < 2 ^ (24 + k) THEN k ELSE ExcessBits(n, k + 1)

\* n rounded to a multiple of 2^k, ties to the even multiple.
RoundBits(n, k) ==
    IF n % (2 ^ k) > 2 ^ (k - 1)
       \/ (n % (2 ^ k) = 2 ^ (k - 1) /\ (n \div (2 ^ k)) % 2 = 1)
    THEN ((n \div (2 ^ k)) + 1) * (2 ^ k)
    ELSE (n \div (2 ^ k)) * (2 ^ k)

\* double -> float, as vertices.push_back(p1.x) converts: exact for a significand
\* below 2^24, else rounded to 24 bits, ties to even.
ToFloat(a) ==
    IF Abs(a.m) < 2 ^ 24 THEN a
    ELSE IF a.m < 0
         THEN Norm(-RoundBits(-a.m, ExcessBits(-a.m, 1)), a.e)
         ELSE Norm(RoundBits(a.m, ExcessBits(a.m, 1)), a.e)

(***************************************************************************)
(* Point3D, Vector3D                                                       *)
(***************************************************************************)
Point3D(x, y, z) == [x |-> x, y |-> y, z |-> z]

Vector3D(x, y, z) == [x |-> x, y |-> y, z |-> z]

\* Point3D(double x = 0, double y = 0, double z = 0)
PointZero == Point3D(R(0), R(0), R(0))

\* Vector3D(const Point3D& p1, const Point3D& p2)
VectorFromTo(p1, p2) == Vector3D(Sub(p2.x, p1.x), Sub(p2.y, p1.y), Sub(p2.z, p1.z))

cross(a, b) ==
    Vector3D(Sub(Mul(a.y, b.z), Mul(a.z, b.y)),
             Sub(Mul(a.z, b.x), Mul(a.x, b.z)),
             Sub(Mul(a.x, b.y), Mul(a.y, b.x)))

AbsR(a) == [m |-> Abs(a.m), e |-> a.e]

\* std::sqrt(x * x + y * y + z * z): for a vector parallel to an axis this is
\* the magnitude of its one component (sqrt of a double's square is exact).
length(v) ==
    IF v.x.m = 0 /\ v.y.m = 0 THEN AbsR(v.z)
    ELSE IF v.x.m = 0 /\ v.z.m = 0 THEN AbsR(v.y)
    ELSE IF v.y.m = 0 /\ v.z.m = 0 THEN AbsR(v.x)
    ELSE Sqrt(Add(Add(Mul(v.x, v.x), Mul(v.y, v.y)), Mul(v.z, v.z)))

\* The body of normalize once len is computed.
normalizeBy(v, len) ==
    IF Gt(len, R(0))
    THEN Vector3D(Div(v.x, len), Div(v.y, len), Div(v.z, len))
    ELSE v

normalize(v) == normalizeBy(v, length(v))

(***************************************************************************)
(* BoundingBox                                                             *)
(***************************************************************************)
\* The sentinel of the void box: 1e9.
Sentinel == 1000000000

\* BoundingBox() : min(1e9, 1e9, 1e9), max(-1e9, -1e9, -1e9)
VoidBox ==
    [min |-> Point3D(R(Sentinel), R(Sentinel), R(Sentinel)),
     max |-> Point3D(R(-Sentinel), R(-Sentinel), R(-Sentinel))]

expand(box, p) ==
    [min |-> Point3D(MinR(box.min.x, p.x), MinR(box.min.y, p.y), MinR(box.min.z, p.z)),
     max |-> Point3D(MaxR(box.max.x, p.x), MaxR(box.max.y, p.y), MaxR(box.max.z, p.z))]

center(box) ==
    Point3D(Half(Add(box.min.x, box.max.x)),
            Half(Add(box.min.y, box.max.y)),
            Half(Add(box.min.z, box.max.z)))

dimensions(box) ==
    Vector3D(Sub(box.max.x, box.min.x),
             Sub(box.max.y, box.min.y),
             Sub(box.max.z, box.min.z))

(***************************************************************************)
(* UCS                                                                     *)
(***************************************************************************)
WorldX == Vector3D(R(1), R(0), R(0))

WorldY == Vector3D(R(0), R(1), R(0))

WorldZ == Vector3D(R(0), R(0), R(1))

\* UCS() : xAxis(1, 0, 0), yAxis(0, 1, 0), zAxis(0, 0, 1), origin Point3D()
DefaultUCS == [origin |-> PointZero, xAxis |-> WorldX, yAxis |-> WorldY, zAxis |-> WorldZ]

(***************************************************************************)
(* MeshData                                                                *)
(***************************************************************************)
EmptyMesh == [vertices |-> <<>>, normals |-> <<>>, indices |-> <<>>]

\* MeshData::clear
clear(mesh) == EmptyMesh

\* addTriangle with startIdx = vertices.size(), the division by 3 left out.
addTriangleFloatIndexed(mesh, p1, p2, p3, normal) ==
    [vertices |-> mesh.vertices \o
                  <<ToFloat(p1.x), ToFloat(p1.y), ToFloat(p1.z),
                    ToFloat(p2.x), ToFloat(p2.y), ToFloat(p2.z),
                    ToFloat(p3.x), ToFloat(p3.y), ToFloat(p3.z)>>,
     normals  |-> mesh.normals \o
                  <<ToFloat(normal.x), ToFloat(normal.y), ToFloat(normal.z),
                    ToFloat(normal.x), ToFloat(normal.y), ToFloat(normal.z),
                    ToFloat(normal.x), ToFloat(normal.y), ToFloat(normal.z)>>,
     indices  |-> mesh.indices \o
                  <<Len(mesh.vertices), Len(mesh.vertices) + 1, Len(mesh.vertices) + 2>>]

\* The body of addTriangle once the normal is computed.
addTriangleWith(mesh, p1, p2, p3, normal) ==
    [vertices |-> mesh.vertices \o
                  <<ToFloat(p1.x), ToFloat(p1.y), ToFloat(p1.z),
                    ToFloat(p2.x), ToFloat(p2.y), ToFloat(p2.z),
                    ToFloat(p3.x), ToFloat(p3.y), ToFloat(p3.z)>>,
     normals  |-> mesh.normals \o
                  <<ToFloat(normal.x), ToFloat(normal.y), ToFloat(normal.z),
                    ToFloat(normal.x), ToFloat(normal.y), ToFloat(normal.z),
                    ToFloat(normal.x), ToFloat(normal.y), ToFloat(normal.z)>>,
     indices  |-> mesh.indices \o
                  <<Len(mesh.vertices) \div 3, (Len(mesh.vertices) \div 3) + 1,
                    (Len(mesh.vertices) \div 3) + 2>>]

addTriangle(mesh, p1, p2, p3) ==
    addTriangleWith(mesh, p1, p2, p3,
                    normalize(cross(VectorFromTo(p1, p2), VectorFromTo(p1, p3))))

addQuad(mesh, p1, p2, p3, p4) ==
    addTriangle(addTriangle(mesh, p1, p2, p3), p1, p3, p4)

(***************************************************************************)
(* Text: tokens, lines, and the std::string operations the parser uses.    *)
(***************************************************************************)
\* A punctuation character, a white-space character or a word.
T(c) == [c |-> c, n |-> 0]

\* An unsigned decimal numeral with integer value n ("10", "10.0").
Numeral(n) == [c |-> "9", n |-> n]

IsNumeral(t) == t.c = "9"

\* ::isspace
isspace(t) == t.c \in {" ", "\t"}

\* std::string::npos
npos == -1

\* Whether the text of token t contains the text of the pattern c: the token
\* itself, or the semicolon that ends a section marker.
Contains(t, c) ==
    \/ t.c = c
    \/ c = ";" /\ t.c \in {"DATA;", "ENDSEC;", "HEADER;"}

\* s.find(c, from)
RECURSIVE find(_, _, _)
find(s, c, from) ==
    IF from >= Len(s) THEN npos
    ELSE IF Contains(s[from + 1], c) THEN from
    ELSE find(s, c, from + 1)

\* s.rfind(c), searching back from position at
RECURSIVE rfindFrom(_, _, _)
rfindFrom(s, c, at) ==
    IF at < 0 THEN npos
    ELSE IF Contains(s[at + 1], c) THEN at
    ELSE rfindFrom(s, c, at - 1)

rfind(s, c) == rfindFrom(s, c, Len(s) - 1)

\* s.substr(pos, count) for pos <= s.size(): count is a size_t, so a negative
\* difference is a huge count and the result runs to the end of s.
substr(s, pos, count) ==
    IF count < 0 \/ pos + count > Len(s)
    THEN SubSeq(s, pos + 1, Len(s))
    ELSE SubSeq(s, pos + 1, pos + count)

\* s.substr(pos)
substrFrom(s, pos) == SubSeq(s, pos + 1, Len(s))

\* type.erase(std::remove_if(type.begin(), type.end(), ::isspace), type.end())
RECURSIVE RemoveSpaces(_)
RemoveSpaces(s) ==
    IF s = <<>> THEN <<>>
    ELSE IF isspace(Head(s)) THEN RemoveSpaces(Tail(s))
    ELSE <<Head(s)>> \o RemoveSpaces(Tail(s))

RECURSIVE SkipSpaces(_)
SkipSpaces(s) ==
    IF s # <<>> /\ isspace(Head(s)) THEN SkipSpaces(Tail(s)) ELSE s

\* sscanf(text, "%d", &id) with id = 0 before the call: white space is skipped,
\* one sign is taken, then digits must follow; with no digits id stays 0.
ScanIntAt(t) ==
    IF t = <<>> THEN 0
    ELSE IF IsNumeral(t[1]) THEN t[1].n
    ELSE IF t[1].c \in {"-", "+"} /\ Len(t) >= 2 /\ IsNumeral(t[2])
         THEN IF t[1].c = "-" THEN -t[2].n ELSE t[2].n
    ELSE 0

ScanInt(s) == ScanIntAt(SkipSpaces(s))

(***************************************************************************)
(* std::stringstream extraction, as ParseCartesianPoint uses it.  A stream *)
(* is [ok, rest, vals]: the fail state, the text not yet read, and the     *)
(* numbers the extractions so far have stored, in order.                   *)
(***************************************************************************)
\* std::stringstream ss(coords)
StringStream(text) == [ok |-> TRUE, rest |-> text, vals |-> <<>>]

\* ss >> double: white space is skipped, one sign is taken, then a numeral must
\* follow.  On failure the stream fails and the target holds 0 (it was 0, and a
\* failed conversion stores 0).  A failed stream reads nothing.
ReadDoubleAt(ss, t) ==
    IF ~ss.ok THEN [ok |-> FALSE, rest |-> ss.rest, vals |-> Append(ss.vals, R(0))]
    ELSE IF t # <<>> /\ IsNumeral(t[1])
         THEN [ok |-> TRUE, rest |-> Tail(t), vals |-> Append(ss.vals, R(t[1].n))]
    ELSE IF Len(t) >= 2 /\ t[1].c \in {"-", "+"} /\ IsNumeral(t[2])
         THEN [ok |-> TRUE, rest |-> Tail(Tail(t)),
               vals |-> Append(ss.vals, IF t[1].c = "-" THEN R(-t[2].n) ELSE R(t[2].n))]
    ELSE [ok |-> FALSE, rest |-> t, vals |-> Append(ss.vals, R(0))]

ReadDouble(ss) == ReadDoubleAt(ss, SkipSpaces(ss.rest))

\* The numeral left when the first digit of the numeral n >= 10 has been read.
RECURSIVE PowerOfTenBelow(_, _)
PowerOfTenBelow(n, p) == IF n < 10 * p THEN p ELSE PowerOfTenBelow(n, 10 * p)

DropFirstDigit(n) == n % PowerOfTenBelow(n, 1)

\* ss >> char: white space is skipped and one character is taken, whatever it
\* is: all of a one-character token, or the first character of a longer one.
ReadCharAt(ss, t) ==
    IF ~ss.ok THEN ss
    ELSE IF t = <<>> THEN [ok |-> FALSE, rest |-> t, vals |-> ss.vals]
    ELSE IF IsNumeral(t[1]) /\ t[1].n >= 10
         THEN [ok |-> TRUE, rest |-> <<Numeral(DropFirstDigit(t[1].n))>> \o Tail(t),
               vals |-> ss.vals]
    ELSE [ok |-> TRUE, rest |-> Tail(t), vals |-> ss.vals]

ReadChar(ss) == ReadCharAt(ss, SkipSpaces(ss.rest))

\* ss >> point.x >> comma >> point.y >> comma >> point.z
ReadPoint(ss) == ReadDouble(ReadChar(ReadDouble(ReadChar(ReadDouble(ss))))).vals

\* The body of ParseCartesianPoint once the first "(" (at start) and the last
\* ")" (at end) are found.
PointOf(vals) == Point3D(vals[1], vals[2], vals[3])

PointBetween(data, start2, end) ==
    IF start2 # npos
    THEN PointOf(ReadPoint(StringStream(substr(data, start2 + 1, end - start2 - 1))))
    ELSE PointZero

ParseCartesianPoint(data) ==
    IF find(data, "(", 0) # npos /\ rfind(data, ")") # npos
    THEN PointBetween(data, find(data, "(", find(data, "(", 0) + 1), rfind(data, ")"))
    ELSE PointZero

(***************************************************************************)
(* STEPEntity and the entity table                                         *)
(***************************************************************************)
\* STEPEntity(int id, const std::string& type, const std::string& data)
STEPEntity(id, type, data) == [id |-> id, type |-> type, data |-> data]

\* An empty std::unordered_map<int, STEPEntity>: a function with no keys.
NoEntities == [k \in {} |-> STEPEntity(0, <<>>, <<>>)]

\* m_entities.empty()
empty(entities) == DOMAIN entities = {}

\* m_entities.emplace(id, entity): nothing is stored when the key is present.
emplace(entities, id, entity) ==
    IF id \in DOMAIN entities
    THEN entities
    ELSE [k \in (DOMAIN entities) \cup {id} |->
             IF k = id THEN entity ELSE entities[k]]

\* The text of the type tag CARTESIAN_POINT.
CartesianPointTag == <<T("CARTESIAN_POINT")>>

(***************************************************************************)
(* ParseSTEPFile                                                           *)
(***************************************************************************)
\* One complete record buffer (the body of "if (line.find(';') != npos)").
EntityAt(currentEntity, idPos, equalPos, typeEndPos) ==
    STEPEntity(ScanInt(substrFrom(currentEntity, idPos + 1)),
               RemoveSpaces(substr(currentEntity, equalPos + 1, typeEndPos - equalPos - 1)),
               substrFrom(currentEntity, typeEndPos))

EmplaceEntity(entities, entity) == emplace(entities, entity.id, entity)

\* A record that, lacking a delimiter, empties the table.
RecordAtStrict(currentEntity, entities, idPos, equalPos, typeEndPos) ==
    IF idPos # npos /\ equalPos # npos /\ typeEndPos # npos
    THEN EmplaceEntity(entities, EntityAt(currentEntity, idPos, equalPos, typeEndPos))
    ELSE NoEntities

RecordAt(currentEntity, entities, idPos, equalPos, typeEndPos) ==
    IF idPos # npos /\ equalPos # npos /\ typeEndPos # npos
    THEN EmplaceEntity(entities, EntityAt(currentEntity, idPos, equalPos, typeEndPos))
    ELSE entities

ParseEntityRecord(currentEntity, entities) ==
    RecordAt(currentEntity, entities, find(currentEntity, "#", 0),
             find(currentEntity, "=", 0), find(currentEntity, "(", 0))

\* The loop with a record buffer that is not emptied after a record.
RECURSIVE ParseLinesKeepingBuffer(_, _, _, _, _)
ParseLinesKeepingBuffer(lines, i, inData, currentEntity, entities) ==
    IF i > Len(lines) THEN entities
    ELSE IF find(lines[i], "DATA;", 0) # npos
         THEN ParseLinesKeepingBuffer(lines, i + 1, TRUE, currentEntity, entities)
    ELSE IF find(lines[i], "ENDSEC;", 0) # npos
         THEN ParseLinesKeepingBuffer(lines, i + 1, FALSE, currentEntity, entities)
    ELSE IF inData
         THEN IF find(lines[i], ";", 0) # npos
              THEN ParseLinesKeepingBuffer(lines, i + 1, inData, currentEntity \o lines[i],
                              ParseEntityRecord(currentEntity \o lines[i], entities))
              ELSE ParseLinesKeepingBuffer(lines, i + 1, inData, currentEntity \o lines[i],
                                           entities)
    ELSE ParseLinesKeepingBuffer(lines, i + 1, inData, currentEntity, entities)

\* The loop over m_stepData, from line i on.
RECURSIVE ParseLines(_, _, _, _, _)
ParseLines(lines, i, inData, currentEntity, entities) ==
    IF i > Len(lines) THEN entities
    ELSE IF find(lines[i], "DATA;", 0) # npos
         THEN ParseLines(lines, i + 1, TRUE, currentEntity, entities)
    ELSE IF find(lines[i], "ENDSEC;", 0) # npos
         THEN ParseLines(lines, i + 1, FALSE, currentEntity, entities)
    ELSE IF inData
         THEN IF find(lines[i], ";", 0) # npos
              THEN ParseLines(lines, i + 1, inData, <<>>,
                              ParseEntityRecord(currentEntity \o lines[i], entities))
              ELSE ParseLines(lines, i + 1, inData, currentEntity \o lines[i], entities)
    ELSE ParseLines(lines, i + 1, inData, currentEntity, entities)

\* bool ParseSTEPFile(): the table it leaves and what it returns.
TableResult(table) == [entities |-> table, ret |-> ~empty(table)]

ParseSTEPFile(stepData, entities) ==
    TableResult(ParseLines(stepData, 1, FALSE, <<>>, entities))

(***************************************************************************)
(* CreateBoxMesh, ExtractMesh                                              *)
(***************************************************************************)
\* Point3D vertices[8] of CreateBoxMesh, for the half extents hw, hh, hd;
\* vertices[i] is at position i + 1.
BoxVertices(hw, hh, hd) ==
    << Point3D(Neg(hw), Neg(hh), Neg(hd)),
       Point3D(hw, Neg(hh), Neg(hd)),
       Point3D(hw, hh, Neg(hd)),
       Point3D(Neg(hw), hh, Neg(hd)),
       Point3D(Neg(hw), Neg(hh), hd),
       Point3D(hw, Neg(hh), hd),
       Point3D(hw, hh, hd),
       Point3D(Neg(hw), hh, hd) >>

\* for (const auto& v : vertices) m_boundingBox.expand(v), from vertices[i - 1] on
RECURSIVE ExpandVertices(_, _, _)
ExpandVertices(box, vertices, i) ==
    IF i > Len(vertices) THEN box
    ELSE ExpandVertices(expand(box, vertices[i]), vertices, i + 1)

\* The faces with the back face wound as the front face is.
BoxFacesBackReversed ==
    << <<4, 5, 6, 7>>, <<0, 1, 2, 3>>, <<7, 6, 2, 3>>,
       <<0, 1, 5, 4>>, <<5, 1, 2, 6>>, <<0, 4, 7, 3>> >>

\* The indices into vertices[] of the six addQuad calls, in the order of the
\* calls: front, back, top, bottom, right, left.
BoxFaces ==
    << <<4, 5, 6, 7>>, <<1, 0, 3, 2>>, <<7, 6, 2, 3>>,
       <<0, 1, 5, 4>>, <<5, 1, 2, 6>>, <<0, 4, 7, 3>> >>

\* The addQuad calls from the i-th on.
RECURSIVE AddFaces(_, _, _)
AddFaces(mesh, vertices, i) ==
    IF i > Len(BoxFaces) THEN mesh
    ELSE AddFaces(addQuad(mesh, vertices[BoxFaces[i][1] + 1], vertices[BoxFaces[i][2] + 1],
                          vertices[BoxFaces[i][3] + 1], vertices[BoxFaces[i][4] + 1]),
                  vertices, i + 1)

\* CreateBoxMesh without the loop that expands the bounding box.
BoxOfVerticesUnexpanded(mesh, box, vertices) ==
    [mesh |-> AddFaces(mesh, vertices, 1), box |-> box]

\* The body of CreateBoxMesh once vertices[] is defined.
BoxOfVertices(mesh, box, vertices) ==
    [mesh |-> AddFaces(mesh, vertices, 1), box |-> ExpandVertices(box, vertices, 1)]

\* CreateBoxMesh with the extents not halved: a box of twice the size.
CreateBoxMeshDoubled(mesh, box, width, height, depth) ==
    BoxOfVertices(mesh, box, BoxVertices(width, height, depth))
        @@ [dims |-> <<width, height, depth>>]

\* void CreateBoxMesh(double width, double height, double depth), on the mesh and
\* the bounding box it is given.
CreateBoxMesh(mesh, box, width, height, depth) ==
    BoxOfVertices(mesh, box, BoxVertices(Half(width), Half(height), Half(depth)))
        @@ [dims |-> <<width, height, depth>>]

\* CreateBoxMesh(100, 60, 40)
DefaultWidth == 100

DefaultHeight == 60

DefaultDepth == 40

\* One turn of the loop of ExtractMesh.
ExpandEntity(box, entity) ==
    IF entity.type = CartesianPointTag
    THEN expand(box, ParseCartesianPoint(entity.data))
    ELSE box

\* The element a range-based for loop visits next.
PickOne(ids) == CHOOSE k \in ids : TRUE

\* The loop of ExtractMesh over m_entities; the order of an unordered_map is
\* not specified and expand does not depend on it.
RECURSIVE ExpandPoints(_, _, _)
ExpandPoints(box, ids, entities) ==
    IF ids = {} THEN box
    ELSE ExpandPoints(ExpandEntity(box, entities[PickOne(ids)]),
                      ids \ {PickOne(ids)}, entities)

\* The end of ExtractMesh were it to report failure when it falls back to the
\* default box.
BoxMeshOfStrict(mesh, pts) ==
    IF Lt(pts.min.x, pts.max.x)
    THEN CreateBoxMesh(mesh, pts, dimensions(pts).x, dimensions(pts).y, dimensions(pts).z)
             @@ [ret |-> TRUE]
    ELSE CreateBoxMesh(mesh, pts, R(DefaultWidth), R(DefaultHeight), R(DefaultDepth))
             @@ [ret |-> FALSE]

\* The end of ExtractMesh, the points having expanded the bounding box to pts.
BoxMeshOf(mesh, pts) ==
    IF Lt(pts.min.x, pts.max.x)
    THEN CreateBoxMesh(mesh, pts, dimensions(pts).x, dimensions(pts).y, dimensions(pts).z)
             @@ [ret |-> TRUE]
    ELSE CreateBoxMesh(mesh, pts, R(DefaultWidth), R(DefaultHeight), R(DefaultDepth))
             @@ [ret |-> TRUE]

\* bool ExtractMesh(): the mesh and bounding box it leaves and what it returns.
ExtractMesh(entities, mesh, box) ==
    IF empty(entities)
    THEN CreateBoxMesh(mesh, box, R(DefaultWidth), R(DefaultHeight), R(DefaultDepth))
             @@ [ret |-> TRUE]
    ELSE BoxMeshOf(mesh, ExpandPoints(box, DOMAIN entities, entities))

(***************************************************************************)
(* The file system the loader reads: the paths a caller passes and, for    *)
(* those that open, the lines std::getline yields.                         *)
(***************************************************************************)
Signed(v) == IF v < 0 THEN <<T("-"), Numeral(-v)>> ELSE <<Numeral(v)>>

\* #id=CARTESIAN_POINT('',(x,y,z));
PointLine(id, x, y, z) ==
    <<T("#"), Numeral(id), T("="), T("CARTESIAN_POINT"),
      T("("), T("'"), T("'"), T(","), T("(")>>
    \o Signed(x) \o <<T(",")>> \o Signed(y) \o <<T(",")>> \o Signed(z)
    \o <<T(")"), T(")"), T(";")>>

\* #id = PRODUCT('part');
ProductLine(id) ==
    <<T("#"), Numeral(id), T(" "), T("="), T(" "), T("PRODUCT"),
      T("("), T("'"), T("part"), T("'"), T(")"), T(";")>>

\* ISO-10303-21; HEADER; FILE_NAME('part'); ENDSEC;
HeaderLines ==
    << <<T("ISO-10303-21"), T(";")>>,
       <<T("HEADER;")>>,
       <<T("FILE_NAME"), T("("), T("'"), T("part"), T("'"), T(")"), T(";")>>,
       <<T("ENDSEC;")>> >>

DataSection(records) == << <<T("DATA;")>> >> \o records \o << <<T("ENDSEC;")>> >>

TrailerLines == << <<T("END-ISO-10303-21"), T(";")>> >>

StepFile(records) == HeaderLines \o DataSection(records) \o TrailerLines

\* The round-trip example: two points spanning 20 x 10 x 10.
RoundTripFile == StepFile(<< PointLine(1, -10, -5, -2), PointLine(2, 10, 5, 8) >>)

\* Two points placed symmetrically about the origin.
CenteredFile == StepFile(<< PointLine(1, -4, -2, -1), PointLine(2, 4, 2, 1) >>)

\* Odd extents, longest along y; a product record between the points.
OddFile == StepFile(<< PointLine(5, 0, 0, 0), ProductLine(6), PointLine(7, 1, 3, 1) >>)

\* Three points, longest along z, one record split over two lines.
TallFile ==
    StepFile(<< PointLine(1, 1, 1, 0),
                <<T("#"), Numeral(2), T("="), T("CARTESIAN_POINT"), T("("), T("'"), T("'"), T(",")>>,
                <<T("("), Numeral(2), T(","), T(" "), Numeral(3), T(","), T(" "), Numeral(12),
                  T(")"), T(")"), T(";")>>,
                PointLine(3, 3, 2, 6) >>)

\* Points on a line parallel to x: the extent is 8 x 0 x 0.
FlatFile == StepFile(<< PointLine(1, 0, 0, 0), PointLine(2, 8, 0, 0) >>)

\* Points that share x: the extent is 0 x 200 x 0.
LineYFile == StepFile(<< PointLine(1, 0, 0, 0), PointLine(2, 0, 200, 0) >>)

\* Only non-point entities.
ProductFile == StepFile(<< ProductLine(1), ProductLine(2) >>)

\* A data section with no record in it.
EmptyDataFile == StepFile(<< >>)

\* A point whose first coordinate is not a number, a point with no inner
\* parenthesis, and one well-formed point.
MalformedFile ==
    StepFile(<< <<T("#"), Numeral(1), T("="), T("CARTESIAN_POINT"), T("("), T("'"), T("'"),
                  T(","), T("("), T("x"), T(","), Numeral(5), T(","), Numeral(7),
                  T(")"), T(")"), T(";")>>,
                <<T("#"), Numeral(2), T("="), T("CARTESIAN_POINT"), T("("), Numeral(9),
                  T(","), Numeral(9), T(","), Numeral(9), T(")"), T(";")>>,
                PointLine(3, 6, 4, 2) >>)

\* Points whose extent, once the box is added, is the same on every axis.
CubeFile == StepFile(<< PointLine(1, 0, 0, 0), PointLine(2, 2, 2, 2) >>)

\* Two records with the id 1, a point and then a product, and two more points.
DuplicateFile ==
    StepFile(<< PointLine(1, 0, 0, 0), ProductLine(1), PointLine(2, 1, 1, 1),
                PointLine(3, 2, 4, 4) >>)

\* Records, but no DATA; line before them.
NoDataFile == HeaderLines \o << PointLine(1, 0, 0, 0), PointLine(2, 4, 4, 4) >> \o TrailerLines

\* A record outside the data section before and after it, two data sections,
\* and a record that begins before the first ENDSEC; line and ends after the
\* second DATA; line.
SectionsFile ==
    HeaderLines
    \o << PointLine(9, 50, 50, 50) >>
    \o DataSection(<< PointLine(1, 0, 0, 0),
                      <<T("#"), Numeral(2), T("="), T("CARTESIAN_POINT"), T("("), T("'"),
                        T("'"), T(",")>> >>)
    \o << PointLine(8, 70, 70, 70) >>
    \o DataSection(<< <<T("("), Numeral(2), T(","), Numeral(4), T(","), Numeral(6),
                        T(")"), T(")"), T(";")>>,
                      PointLine(3, 6, 2, 2) >>)
    \o TrailerLines

\* Between two points: a record with no '#', one with no '=' and one with no '('.
DroppedFile ==
    StepFile(<< PointLine(1, 0, 0, 0),
                <<T("PRODUCT"), T("("), T("'"), T("part"), T("'"), T(")"), T(";")>>,
                <<T("#"), Numeral(7), T(" "), T("PRODUCT"), T("("), T("'"), T("part"),
                  T("'"), T(")"), T(";")>>,
                <<T("#"), Numeral(8), T("="), T("PRODUCT"), T(";")>>,
                PointLine(2, 4, 2, 2) >>)

\* A record with a parenthesis before its '#', one with an '=' before its '#',
\* and two points.
PrefixFile ==
    StepFile(<< <<T("("), T("a"), T(")"), T("#"), Numeral(4), T("="), T("PRODUCT"),
                  T("("), T("'"), T("part"), T("'"), T(")"), T(";")>>,
                <<T("x"), T("="), T("y"), T("#"), Numeral(5), T("="), T("PRODUCT"),
                  T("("), T("'"), T("part"), T("'"), T(")"), T(";")>>,
                PointLine(1, 0, 0, 0), PointLine(2, 6, 2, 2) >>)

\* A record whose '#' is followed by a sign, one whose '#' is followed by no
\* digit, and two points.
SignedFile ==
    StepFile(<< <<T("#"), T("-"), Numeral(5), T("="), T("PRODUCT"),
                  T("("), T("'"), T("part"), T("'"), T(")"), T(";")>>,
                <<T("#"), T("="), T("PRODUCT"),
                  T("("), T("'"), T("part"), T("'"), T(")"), T(";")>>,
                PointLine(1, 0, 0, 0), PointLine(2, 6, 2, 2) >>)

\* Points far from the origin along y whose own extent is longest along x.
OffsetFile == StepFile(<< PointLine(1, 0, 100, 0), PointLine(2, 10, 109, 1) >>)

\* An extent whose half, 16777219, is not a float.
BigFile == StepFile(<< PointLine(1, 0, 0, 0), PointLine(2, 33554438, 2, 2) >>)

\* The files that open, by path.
FileSystem ==
    ("roundtrip.step" :> RoundTripFile) @@ ("centered.step" :> CenteredFile)
    @@ ("odd.step" :> OddFile) @@ ("tall.step" :> TallFile)
    @@ ("flat.step" :> FlatFile) @@ ("liney.step" :> LineYFile)
    @@ ("product.step" :> ProductFile) @@ ("emptydata.step" :> EmptyDataFile)
    @@ ("nodata.step" :> NoDataFile) @@ ("malformed.step" :> MalformedFile)
    @@ ("cube.step" :> CubeFile) @@ ("duplicate.step" :> DuplicateFile)
    @@ ("sections.step" :> SectionsFile) @@ ("dropped.step" :> DroppedFile)
    @@ ("prefix.step" :> PrefixFile) @@ ("signed.step" :> SignedFile)
    @@ ("offset.step" :> OffsetFile) @@ ("big.step" :> BigFile)

\* The paths a caller passes: those that open and one that does not.
Paths == (DOMAIN FileSystem) \cup {"missing.step"}

\* std::ifstream file(filename); file.is_open()
is_open(filename) == filename \in DOMAIN FileSystem

\* while (std::getline(file, line)) m_stepData.push_back(line)
ReadLines(filename) == FileSystem[filename]

(***************************************************************************)
(* The session: STEPProcessorWeb                                           *)
(***************************************************************************)
Session ==
    [m_currentFile |-> m_currentFile, m_fileLoaded |-> m_fileLoaded, m_ucs |-> m_ucs,
     m_boundingBox |-> m_boundingBox, m_stepData |-> m_stepData, m_mesh |-> m_mesh,
     m_entities |-> m_entities]

\* STEPProcessorWeb(): the members' default initialisers.
Init ==
    /\ m_currentFile = ""
    /\ m_fileLoaded = FALSE
    /\ m_ucs = DefaultUCS
    /\ m_boundingBox = VoidBox
    /\ m_stepData = <<>>
    /\ m_mesh = EmptyMesh
    /\ m_entities = NoEntities
    /\ pre = [m_currentFile |-> "", m_fileLoaded |-> FALSE, m_ucs |-> DefaultUCS,
              m_boundingBox |-> VoidBox, m_stepData |-> <<>>, m_mesh |-> EmptyMesh,
              m_entities |-> NoEntities]
    /\ call = [op |-> "STEPProcessorWeb", filename |-> "", dims |-> <<>>, ret |-> TRUE]

\* The right operand of "ParseSTEPFile() && ExtractMesh()": ExtractMesh is called
\* only when ParseSTEPFile returned true.
ExtractIfParsed(parsed) ==
    IF parsed.ret
    THEN [entities |-> parsed.entities] @@ ExtractMesh(parsed.entities, EmptyMesh, VoidBox)
    ELSE [entities |-> parsed.entities, mesh |-> EmptyMesh, box |-> VoidBox,
          dims |-> <<>>, ret |-> FALSE]

\* "if (ParseSTEPFile() && ExtractMesh())" on the lines of an opened file, the
\* table, mesh and bounding box having just been cleared: what the two calls
\* leave in m_entities, m_mesh and m_boundingBox, and the value of the condition.
\* ExtractMesh is not called when ParseSTEPFile returns false.
ParseAndExtract(stepData) == ExtractIfParsed(ParseSTEPFile(stepData, NoEntities))

\* ParseAndExtract of every file that opens (each file's result computed once).
RECURSIVE OutcomeOf(_)
OutcomeOf(names) ==
    IF names = {} THEN <<>>
    ELSE (PickOne(names) :> ParseAndExtract(ReadLines(PickOne(names))))
         @@ OutcomeOf(names \ {PickOne(names)})

LoadOutcome == OutcomeOf(DOMAIN FileSystem)

\* LoadSTEPFile were it to reset the loaded flag when it begins.
LoadSTEPFileResetting(filename) ==
    /\ pre' = Session
    /\ m_currentFile' = filename
    /\ m_ucs' = m_ucs
    /\ IF ~is_open(filename)
       THEN /\ m_stepData' = <<>>
            /\ m_entities' = NoEntities
            /\ m_mesh' = clear(m_mesh)
            /\ m_boundingBox' = VoidBox
            /\ m_fileLoaded' = FALSE
            /\ call' = [op |-> "LoadSTEPFile", filename |-> filename,
                        dims |-> <<>>, ret |-> FALSE]
       ELSE \E out \in {LoadOutcome[filename]} :
            /\ m_stepData' = ReadLines(filename)
            /\ m_entities' = out.entities
            /\ m_mesh' = out.mesh
            /\ m_boundingBox' = out.box
            /\ m_fileLoaded' = out.ret
            /\ call' = [op |-> "LoadSTEPFile", filename |-> filename,
                        dims |-> out.dims, ret |-> out.ret]

\* bool LoadSTEPFile(const std::string& filename)
LoadSTEPFile(filename) ==
    /\ pre' = Session
    /\ m_currentFile' = filename
    /\ m_ucs' = m_ucs
    /\ IF ~is_open(filename)
       THEN /\ m_stepData' = <<>>
            /\ m_entities' = NoEntities
            /\ m_mesh' = clear(m_mesh)
            /\ m_boundingBox' = VoidBox
            /\ m_fileLoaded' = m_fileLoaded
            /\ call' = [op |-> "LoadSTEPFile", filename |-> filename,
                        dims |-> <<>>, ret |-> FALSE]
       ELSE \E out \in {LoadOutcome[filename]} :
            /\ m_stepData' = ReadLines(filename)
            /\ m_entities' = out.entities
            /\ m_mesh' = out.mesh
            /\ m_boundingBox' = out.box
            /\ m_fileLoaded' = IF out.ret THEN TRUE ELSE m_fileLoaded
            /\ call' = [op |-> "LoadSTEPFile", filename |-> filename,
                        dims |-> out.dims, ret |-> out.ret]

\* The axes with xAxis = zAxis x yAxis, the operands exchanged.
FrameExchanged(origin, zAxis, yAxis) ==
    [origin |-> origin, xAxis |-> normalize(cross(zAxis, yAxis)),
     yAxis |-> yAxis, zAxis |-> zAxis]

\* The axes of CreateUCS: yAxis = zAxis x xAxis and xAxis = yAxis x zAxis,
\* each normalised.
Frame(origin, zAxis, yAxis) ==
    [origin |-> origin, xAxis |-> normalize(cross(yAxis, zAxis)),
     yAxis |-> yAxis, zAxis |-> zAxis]

FrameOf(origin, zAxis, xAxis) == Frame(origin, zAxis, normalize(cross(zAxis, xAxis)))

\* The frame with the comparisons strict: a tie falls through to the next axis.
UCSOfDimsStrict(origin, dims) ==
    IF Gt(dims.x, dims.y) /\ Gt(dims.x, dims.z) THEN FrameOf(origin, WorldX, WorldY)
    ELSE IF Gt(dims.y, dims.x) /\ Gt(dims.y, dims.z) THEN FrameOf(origin, WorldY, WorldX)
    ELSE FrameOf(origin, WorldZ, WorldX)

\* The frame CreateUCS computes from the bounding box.
UCSOfDims(origin, dims) ==
    IF Ge(dims.x, dims.y) /\ Ge(dims.x, dims.z) THEN FrameOf(origin, WorldX, WorldY)
    ELSE IF Ge(dims.y, dims.x) /\ Ge(dims.y, dims.z) THEN FrameOf(origin, WorldY, WorldX)
    ELSE FrameOf(origin, WorldZ, WorldX)

UCSOf(box) == UCSOfDims(center(box), dimensions(box))

\* CreateUCS were it to take each new axis from the frame it finds.
CreateUCSCycling ==
    /\ pre' = Session
    /\ call' = [op |-> "CreateUCS", filename |-> "", dims |-> <<>>, ret |-> m_fileLoaded]
    /\ m_ucs' = IF ~m_fileLoaded THEN m_ucs
                ELSE [origin |-> center(m_boundingBox), xAxis |-> m_ucs.yAxis,
                      yAxis |-> m_ucs.zAxis, zAxis |-> m_ucs.xAxis]
    /\ UNCHANGED <<m_currentFile, m_fileLoaded, m_boundingBox, m_stepData, m_mesh,
                   m_entities>>

\* CreateUCS without the test of m_fileLoaded.
CreateUCSUnguarded ==
    /\ pre' = Session
    /\ call' = [op |-> "CreateUCS", filename |-> "", dims |-> <<>>, ret |-> m_fileLoaded]
    /\ m_ucs' = UCSOf(m_boundingBox)
    /\ UNCHANGED <<m_currentFile, m_fileLoaded, m_boundingBox, m_stepData, m_mesh,
                   m_entities>>

\* void CreateUCS()
CreateUCS ==
    /\ pre' = Session
    /\ call' = [op |-> "CreateUCS", filename |-> "", dims |-> <<>>, ret |-> m_fileLoaded]
    /\ m_ucs' = IF ~m_fileLoaded THEN m_ucs ELSE UCSOf(m_boundingBox)
    /\ UNCHANGED <<m_currentFile, m_fileLoaded, m_boundingBox, m_stepData, m_mesh,
                   m_entities>>

\* A const member function: it returns ret and assigns no member.
Accessor(op, ret) ==
    /\ pre' = Session
    /\ call' = [op |-> op, filename |-> "", dims |-> <<>>, ret |-> ret]
    /\ UNCHANGED <<m_currentFile, m_fileLoaded, m_ucs, m_boundingBox, m_stepData,
                   m_mesh, m_entities>>

GetVertexCount == Accessor("GetVertexCount", Len(m_mesh.vertices))

GetNormalCount == Accessor("GetNormalCount", Len(m_mesh.normals))

GetIndexCount == Accessor("GetIndexCount", Len(m_mesh.indices))

\* The buffer the returned pointer gives access to.
GetVertices == Accessor("GetVertices", m_mesh.vertices)

GetNormals == Accessor("GetNormals", m_mesh.normals)

GetIndices == Accessor("GetIndices", m_mesh.indices)

\* The thousandths nearest to r / den, for 0 <= r < den; a tie goes to the even one.
RoundedThousandths(r, den) ==
    IF 2 * ((r * 1000) % den) > den
       \/ (2 * ((r * 1000) % den) = den /\ ((r * 1000) \div den) % 2 = 1)
    THEN ((r * 1000) \div den) + 1
    ELSE (r * 1000) \div den

FixedOf(neg, int, thousandths) ==
    IF thousandths = 1000
    THEN [neg |-> neg, int |-> int + 1, frac |-> 0]
    ELSE [neg |-> neg, int |-> int, frac |-> thousandths]

\* ss << std::fixed << std::setprecision(3) << a: the sign, the integer digits
\* and the three decimals written.
Fixed3(a) ==
    FixedOf(a.m < 0, Abs(a.m) \div (2 ^ a.e),
            RoundedThousandths(Abs(a.m) % (2 ^ a.e), 2 ^ a.e))

\* std::string GetUCSInfo() const: "Origin: (x, y, z)"
GetUCSInfo ==
    Accessor("GetUCSInfo",
             [label |-> "Origin",
              values |-> <<Fixed3(m_ucs.origin.x), Fixed3(m_ucs.origin.y),
                           Fixed3(m_ucs.origin.z)>>])

\* std::string GetBoundingBoxInfo() const: "Dimensions: x x y x z"
GetBoundingBoxInfo ==
    Accessor("GetBoundingBoxInfo",
             [label |-> "Dimensions",
              values |-> <<Fixed3(dimensions(m_boundingBox).x),
                           Fixed3(dimensions(m_boundingBox).y),
                           Fixed3(dimensions(m_boundingBox).z)>>])

Next ==
    \/ \E filename \in Paths : LoadSTEPFile(filename)
    \/ CreateUCS
    \/ GetVertexCount
    \/ GetNormalCount
    \/ GetIndexCount
    \/ GetVertices
    \/ GetNormals
    \/ GetIndices
    \/ GetUCSInfo
    \/ GetBoundingBoxInfo

Spec == Init /\ [][Next]_vars

(***************************************************************************)
(* The mesh builder on its own: a newly constructed processor on which     *)
(* CreateBoxMesh(width, height, depth) is called directly, for every       *)
(* choice of positive dimensions among the multiples of 1/2 up to          *)
(* MaxDim / 2.  The dimensions of the call to come are held in call.dims.  *)
(***************************************************************************)
MaxDim == 5

BoxDims == {Half(R(k)) : k \in 1..MaxDim}

InitBox ==
    /\ m_currentFile = ""
    /\ m_fileLoaded = FALSE
    /\ m_ucs = DefaultUCS
    /\ m_boundingBox = VoidBox
    /\ m_stepData = <<>>
    /\ m_mesh = EmptyMesh
    /\ m_entities = NoEntities
    /\ pre = [m_currentFile |-> "", m_fileLoaded |-> FALSE, m_ucs |-> DefaultUCS,
              m_boundingBox |-> VoidBox, m_stepData |-> <<>>, m_mesh |-> EmptyMesh,
              m_entities |-> NoEntities]
    /\ \E width \in BoxDims, height \in BoxDims, depth \in BoxDims :
           call = [op |-> "STEPProcessorWeb", filename |-> "",
                   dims |-> <<width, height, depth>>, ret |-> TRUE]

\* CreateBoxMesh(width, height, depth) called on the new processor.
CallCreateBoxMesh ==
    /\ call.op = "STEPProcessorWeb"
    /\ call.dims # <<>>
    /\ pre' = Session
    /\ \E out \in {CreateBoxMesh(m_mesh, m_boundingBox,
                                 call.dims[1], call.dims[2], call.dims[3])} :
           /\ m_mesh' = out.mesh
           /\ m_boundingBox' = out.box
    /\ call' = [op |-> "CreateBoxMesh", filename |-> "", dims |-> call.dims, ret |-> TRUE]
    /\ UNCHANGED <<m_currentFile, m_fileLoaded, m_ucs, m_stepData, m_entities>>

\* The processor the builder was called on directly is not used as a session;
\* any other goes through the public calls.
NextBox ==
    \/ CallCreateBoxMesh
    \/ \E filename \in Paths : call.op # "CreateBoxMesh" /\ LoadSTEPFile(filename)
    \/ call.op # "CreateBoxMesh" /\ CreateUCS

SpecBox == InitBox /\ [][NextBox]_vars

(***************************************************************************)
(* Properties.  pre and call make each a predicate on one state: the state *)
(* a call leaves, with the state it began in and what it returned.         *)
(***************************************************************************)
LoadReturned == call.op = "LoadSTEPFile"

LoadSucceeded == call.op = "LoadSTEPFile" /\ call.ret

\* min <= max on every axis
NonVoid(box) ==
    /\ Ge(box.max.x, box.min.x)
    /\ Ge(box.max.y, box.min.y)
    /\ Ge(box.max.z, box.min.z)

\* The stream of ParseCartesianPoint after its five extractions.
CoordStream(data) ==
    ReadDouble(ReadChar(ReadDouble(ReadChar(ReadDouble(StringStream(
        substr(data, find(data, "(", find(data, "(", 0) + 1) + 1,
               rfind(data, ")") - find(data, "(", find(data, "(", 0) + 1) - 1)))))))

\* The text of a point holds three numbers between its inner parentheses.
WellFormedPoint(data) ==
    /\ find(data, "(", 0) # npos
    /\ find(data, "(", find(data, "(", 0) + 1) # npos
    /\ rfind(data, ")") # npos
    /\ CoordStream(data).ok

PointIds(entities) == {k \in DOMAIN entities : entities[k].type = CartesianPointTag}

\* The component-wise minimum and maximum of the points of the table.
PointExtent(entities) == ExpandPoints(VoidBox, DOMAIN entities, entities)

\* Every point of the table is well formed and the points span a positive
\* extent on every axis.
WellFormedSolid(entities) ==
    /\ PointIds(entities) # {}
    /\ \A k \in PointIds(entities) : WellFormedPoint(entities[k].data)
    /\ Lt(PointExtent(entities).min.x, PointExtent(entities).max.x)
    /\ Lt(PointExtent(entities).min.y, PointExtent(entities).max.y)
    /\ Lt(PointExtent(entities).min.z, PointExtent(entities).max.z)

\* C1: a LoadSTEPFile whose path cannot be opened reports failure and leaves
\* every session field (file name, loaded flag, entity table, bounding box, UCS,
\* mesh, stored lines) with the value it had before the call.
C1_FailedOpenKeepsSession ==
    (LoadReturned /\ ~is_open(call.filename)) => (~call.ret /\ Session = pre)

\* C2: a LoadSTEPFile of a readable file that yields no entity record, on a
\* session loaded from an earlier file, fails and leaves the entity table, the
\* bounding box, the UCS, the mesh and the file name as they were.
C2_EmptyFileKeepsSession ==
    (LoadReturned /\ is_open(call.filename) /\ pre.m_fileLoaded
        /\ empty(LoadOutcome[call.filename].entities))
    => /\ ~call.ret
       /\ m_entities = pre.m_entities
       /\ m_boundingBox = pre.m_boundingBox
       /\ m_ucs = pre.m_ucs
       /\ m_mesh = pre.m_mesh
       /\ m_currentFile = pre.m_currentFile

\* C3: in every reachable state with the loaded flag set, the entity table is
\* not empty, the bounding box is not void (min <= max on every axis) and the
\* mesh holds the 12 triangles of the box.
C3_LoadedIsConsistent ==
    m_fileLoaded =>
        /\ ~empty(m_entities)
        /\ NonVoid(m_boundingBox)
        /\ Len(m_mesh.indices) = 36

\* C4: a LoadSTEPFile of a file that can be read succeeds exactly when the
\* parser produced at least one entity record, whatever the geometry in it.
C4_SucceedsIffEntities ==
    (LoadReturned /\ is_open(call.filename)) => (call.ret <=> ~empty(m_entities))

\* C4 happens: a file whose points are malformed loads, and a file with no
\* record has failed to load before it.
C4_Witness ==
    /\ LoadSucceeded
    /\ call.filename = "malformed.step"
    /\ ~empty(m_entities)
    /\ pre.m_currentFile = "emptydata.step"
    /\ empty(pre.m_entities)

\* C5: in the state a successful LoadSTEPFile leaves, the UCS is the one derived
\* from the bounding box of the new file: origin at its center, axes by the
\* dominant-axis rule.
C5_LoadDerivesUCS ==
    LoadSucceeded => m_ucs = UCSOf(m_boundingBox)

\* C6: after a successful load of a file whose points are well formed and span
\* a positive extent on every axis, the bounding box is exactly the
\* component-wise minimum and maximum of the points.
C6_BoxIsPointExtent ==
    (LoadSucceeded /\ WellFormedSolid(m_entities))
    => m_boundingBox = PointExtent(m_entities)

\* C7: CreateUCS on the session loaded from the round-trip file (points
\* (-10,-5,-2) and (10,5,8)) leaves the UCS origin at (0,0,0).
C7_RoundTripOrigin ==
    (call.op = "CreateUCS" /\ pre.m_fileLoaded /\ pre.m_currentFile = "roundtrip.step"
        /\ ~empty(pre.m_entities))
    => m_ucs.origin = PointZero

\* C8: the mesh builder on an empty mesh, for any positive dimensions, and
\* every successful LoadSTEPFile leave a mesh of 24 vertices (72 floats),
\* 24 normals (72 floats) and 12 triangles (36 indices).
C8_BoxCounts ==
    (call.op = "CreateBoxMesh" \/ LoadSucceeded)
    => /\ Len(m_mesh.vertices) = 72
       /\ Len(m_mesh.normals) = 72
       /\ Len(m_mesh.indices) = 36

\* C9: in every reachable state the vertex and normal buffers have the same
\* length, a multiple of 3, the index buffer has a length that is a multiple
\* of 3, and every index is less than the number of vertices.
C9_MeshBuffers ==
    /\ Len(m_mesh.vertices) = Len(m_mesh.normals)
    /\ Len(m_mesh.vertices) % 3 = 0
    /\ Len(m_mesh.indices) % 3 = 0
    /\ \A i \in 1..Len(m_mesh.indices) :
           m_mesh.indices[i] < Len(m_mesh.vertices) \div 3

\* C9 happens: a second successful load has replaced the mesh of the first.
C9_Witness ==
    /\ LoadSucceeded
    /\ pre.m_fileLoaded
    /\ pre.m_mesh # EmptyMesh
    /\ m_mesh # pre.m_mesh
    /\ Len(m_mesh.indices) = 36

\* The outward axis of the face of each addQuad call, in the order of the calls.
OutwardAxis ==
    << Vector3D(R(0), R(0), R(1)), Vector3D(R(0), R(0), R(-1)),
       Vector3D(R(0), R(1), R(0)), Vector3D(R(0), R(-1), R(0)),
       Vector3D(R(1), R(0), R(0)), Vector3D(R(-1), R(0), R(0)) >>

\* The normal stored in slot k (1..3) of triangle t (1..12).
NormalSlot(mesh, t, k) ==
    Vector3D(mesh.normals[9 * (t - 1) + 3 * (k - 1) + 1],
             mesh.normals[9 * (t - 1) + 3 * (k - 1) + 2],
             mesh.normals[9 * (t - 1) + 3 * (k - 1) + 3])

\* C10: for positive dimensions, each of the 12 triangles of the box carries,
\* in all three of its normal slots, the unit vector along the outward axis of
\* its face (+z, -z, +y, -y, +x, -x for front, back, top, bottom, right, left),
\* so the two triangles of a quad carry the same normal.
C10_OutwardNormals ==
    call.op = "CreateBoxMesh" =>
        /\ Len(m_mesh.normals) = 9 * 12
        /\ \A t \in 1..12 : \A k \in 1..3 :
               NormalSlot(m_mesh, t, k) = OutwardAxis[(t + 1) \div 2]

\* C10 happens: the builder has run on dimensions that differ on every axis.
C10_Witness ==
    /\ call.op = "CreateBoxMesh"
    /\ call.dims = <<Half(R(1)), R(1), Half(R(3))>>
    /\ Len(m_mesh.indices) = 36
    /\ NormalSlot(m_mesh, 3, 1) = Vector3D(R(0), R(0), R(-1))

Dot(a, b) == Add(Add(Mul(a.x, b.x), Mul(a.y, b.y)), Mul(a.z, b.z))

\* C11: in every reachable state the UCS axes are each of unit length (so none
\* is the zero vector), pairwise orthogonal, and right-handed: zAxis x xAxis is
\* yAxis.
C11_OrthonormalFrame ==
    /\ Dot(m_ucs.xAxis, m_ucs.xAxis) = R(1)
    /\ Dot(m_ucs.yAxis, m_ucs.yAxis) = R(1)
    /\ Dot(m_ucs.zAxis, m_ucs.zAxis) = R(1)
    /\ Dot(m_ucs.xAxis, m_ucs.yAxis) = R(0)
    /\ Dot(m_ucs.yAxis, m_ucs.zAxis) = R(0)
    /\ Dot(m_ucs.zAxis, m_ucs.xAxis) = R(0)
    /\ cross(m_ucs.zAxis, m_ucs.xAxis) = m_ucs.yAxis

\* C11 happens: CreateUCS has built a frame about the y axis, whose yAxis
\* points along -z.
C11_Witness ==
    /\ call.op = "CreateUCS"
    /\ pre.m_fileLoaded
    /\ m_ucs.zAxis = WorldY
    /\ m_ucs.yAxis = Vector3D(R(0), R(0), R(-1))
    /\ m_ucs # pre.m_ucs

\* C12: after CreateUCS on a loaded session the origin is the center of the
\* bounding box, zAxis is the world axis of its largest dimension, a tie going
\* to X before Y before Z, and xAxis is world Y when zAxis is world X and
\* world X otherwise.
C12_DominantAxis ==
    (call.op = "CreateUCS" /\ pre.m_fileLoaded)
    => /\ m_ucs.origin = center(m_boundingBox)
       /\ m_ucs.zAxis =
              IF Ge(dimensions(m_boundingBox).x, dimensions(m_boundingBox).y)
                 /\ Ge(dimensions(m_boundingBox).x, dimensions(m_boundingBox).z)
              THEN WorldX
              ELSE IF Ge(dimensions(m_boundingBox).y, dimensions(m_boundingBox).x)
                      /\ Ge(dimensions(m_boundingBox).y, dimensions(m_boundingBox).z)
                   THEN WorldY
                   ELSE WorldZ
       /\ m_ucs.xAxis = IF m_ucs.zAxis = WorldX THEN WorldY ELSE WorldX

\* C12 happens: CreateUCS on a box whose three dimensions are equal.
C12_Witness ==
    /\ call.op = "CreateUCS"
    /\ pre.m_fileLoaded
    /\ m_currentFile = "cube.step"
    /\ dimensions(m_boundingBox) = Vector3D(R(3), R(3), R(3))
    /\ m_ucs.zAxis = WorldX
    /\ m_ucs.xAxis = WorldY

\* C13: CreateUCS called on a loaded session straight after CreateUCS leaves
\* the UCS and every other session field as the first call left them.
C13_CreateUCSIdempotent ==
    [][(call.op = "CreateUCS" /\ m_fileLoaded /\ call'.op = "CreateUCS")
       => Session' = Session]_vars

\* C13 happens: CreateUCS has run on a loaded session whose UCS was already the
\* frame about the y axis at the center of the present bounding box.
C13_Witness ==
    /\ call.op = "CreateUCS"
    /\ pre.m_fileLoaded
    /\ pre.m_ucs.zAxis = WorldY
    /\ pre.m_ucs.origin = center(m_boundingBox)
    /\ pre = Session

\* C14: CreateUCS on a session in which no load has ever succeeded changes no
\* session field, and the UCS is the default frame.
C14_EmptyCreateUCSNoOp ==
    (call.op = "CreateUCS" /\ ~pre.m_fileLoaded)
    => (Session = pre /\ m_ucs = DefaultUCS)

\* C14 happens: CreateUCS has run on a session whose only loads have failed.
C14_Witness ==
    /\ call.op = "CreateUCS"
    /\ ~pre.m_fileLoaded
    /\ pre.m_currentFile = "emptydata.step"
    /\ m_ucs = DefaultUCS

\* C15: a readable file with at least one entity and no CARTESIAN_POINT entity
\* loads, and its mesh and bounding box are those of the box of 100 x 60 x 40
\* centered at the origin: min = (-50,-30,-20), max = (50,30,20).
C15_NoPointGivesDefaultBox ==
    (LoadReturned /\ is_open(call.filename) /\ ~empty(m_entities)
        /\ PointIds(m_entities) = {})
    => /\ call.ret
       /\ m_boundingBox = [min |-> Point3D(R(-50), R(-30), R(-20)),
                           max |-> Point3D(R(50), R(30), R(20))]
       /\ m_mesh = AddFaces(EmptyMesh, BoxVertices(R(50), R(30), R(20)), 1)

\* C15 happens: a file holding only PRODUCT records has been loaded.
C15_Witness ==
    /\ LoadSucceeded
    /\ call.filename = "product.step"
    /\ DOMAIN m_entities = {1, 2}
    /\ PointIds(m_entities) = {}
    /\ Len(m_mesh.indices) = 36

\* C16: in every load the mesh builder is given strictly positive width, height
\* and depth, and when the extent of the points is not positive on some axis it
\* is given the default 100 x 60 x 40.
C16_BuilderGetsPositiveDims ==
    (LoadReturned /\ call.dims # <<>>)
    => /\ Gt(call.dims[1], R(0))
       /\ Gt(call.dims[2], R(0))
       /\ Gt(call.dims[3], R(0))
       /\ (~(/\ Lt(PointExtent(m_entities).min.x, PointExtent(m_entities).max.x)
             /\ Lt(PointExtent(m_entities).min.y, PointExtent(m_entities).max.y)
             /\ Lt(PointExtent(m_entities).min.z, PointExtent(m_entities).max.z))
           => call.dims = <<R(100), R(60), R(40)>>)

\* A point entity whose text is not well formed, tagged as something that is
\* not a point.
NotAPoint(entity) ==
    IF entity.type = CartesianPointTag /\ ~WellFormedPoint(entity.data)
    THEN STEPEntity(entity.id, <<T("NOT_A_POINT")>>, entity.data)
    ELSE entity

\* The table with every malformed point entity tagged as not a point.
WithoutMalformedPoints(entities) == [k \in DOMAIN entities |-> NotAPoint(entities[k])]

\* C17: a CARTESIAN_POINT entity whose coordinates do not parse as three numbers,
\* or whose payload has no second opening parenthesis, contributes nothing: the
\* load is not aborted and its bounding box and mesh are those the same table
\* gives with that entity not a point entity.
C17_MalformedPointIgnored ==
    (LoadReturned /\ is_open(call.filename) /\ ~empty(m_entities))
    => /\ call.ret
       /\ m_boundingBox =
              ExtractMesh(WithoutMalformedPoints(m_entities), EmptyMesh, VoidBox).box
       /\ m_mesh =
              ExtractMesh(WithoutMalformedPoints(m_entities), EmptyMesh, VoidBox).mesh

\* The table with entity stored under its id, whatever was stored there before.
Overwrite(entities, entity) ==
    [k \in (DOMAIN entities) \cup {entity.id} |->
        IF k = entity.id THEN entity ELSE entities[k]]

\* One complete record buffer, stored so that the last write wins.
LastWriteRecord(currentEntity, entities) ==
    IF find(currentEntity, "#", 0) # npos /\ find(currentEntity, "=", 0) # npos
       /\ find(currentEntity, "(", 0) # npos
    THEN Overwrite(entities,
                   EntityAt(currentEntity, find(currentEntity, "#", 0),
                            find(currentEntity, "=", 0), find(currentEntity, "(", 0)))
    ELSE entities

\* The table of the records of the data section, the last write winning.
RECURSIVE LastWriteLines(_, _, _, _, _)
LastWriteLines(lines, i, inData, currentEntity, entities) ==
    IF i > Len(lines) THEN entities
    ELSE IF find(lines[i], "DATA;", 0) # npos
         THEN LastWriteLines(lines, i + 1, TRUE, currentEntity, entities)
    ELSE IF find(lines[i], "ENDSEC;", 0) # npos
         THEN LastWriteLines(lines, i + 1, FALSE, currentEntity, entities)
    ELSE IF inData
         THEN IF find(lines[i], ";", 0) # npos
              THEN LastWriteLines(lines, i + 1, inData, <<>>,
                                  LastWriteRecord(currentEntity \o lines[i], entities))
              ELSE LastWriteLines(lines, i + 1, inData, currentEntity \o lines[i], entities)
    ELSE LastWriteLines(lines, i + 1, inData, currentEntity, entities)

\* C18: when two records of the data section carry the same id, the entity
\* table after the load holds the type and data of the later one: the table is
\* the one the records give with the last write winning.
C18_LastWriteWins ==
    LoadSucceeded => m_entities = LastWriteLines(m_stepData, 1, FALSE, <<>>, NoEntities)

\* What LoadSTEPFile(filename) then CreateUCS leave in a newly constructed
\* session: the entity table, bounding box, mesh and UCS.
FreshRun(filename) ==
    IF is_open(filename)
    THEN [entities |-> LoadOutcome[filename].entities,
          box |-> LoadOutcome[filename].box,
          mesh |-> LoadOutcome[filename].mesh,
          ucs |-> IF LoadOutcome[filename].ret
                  THEN UCSOf(LoadOutcome[filename].box) ELSE DefaultUCS]
    ELSE [entities |-> NoEntities, box |-> VoidBox, mesh |-> EmptyMesh,
          ucs |-> DefaultUCS]

\* C19: LoadSTEPFile(F) then CreateUCS leave the same entity table, bounding
\* box, UCS and mesh buffers whatever the session went through before (new,
\* loaded from another file or from the same file, or after a failed load):
\* those a newly constructed session is left with.
C19_HistoryIndependent ==
    (call.op = "CreateUCS" /\ m_currentFile # "")
    => /\ m_entities = FreshRun(m_currentFile).entities
       /\ m_boundingBox = FreshRun(m_currentFile).box
       /\ m_mesh = FreshRun(m_currentFile).mesh
       /\ m_ucs = FreshRun(m_currentFile).ucs

\* C20: whenever CreateUCS computes a new origin and axes (the loaded flag is
\* set), the bounding box it computes them from is not void.
C20_UCSFromNonVoidBox ==
    (call.op = "CreateUCS" /\ pre.m_fileLoaded) => NonVoid(pre.m_boundingBox)

AccessorOps ==
    {"GetVertexCount", "GetNormalCount", "GetIndexCount", "GetVertices", "GetNormals",
     "GetIndices", "GetUCSInfo", "GetBoundingBoxInfo"}

\* C21: no accessor call changes a session field, and on a session with no
\* loaded file GetBoundingBoxInfo does not report dimensions and GetUCSInfo does
\* not report an origin as if they were data of a part.
C21_AccessorsBenignWhenEmpty ==
    /\ call.op \in AccessorOps => Session = pre
    /\ (call.op = "GetBoundingBoxInfo" /\ ~pre.m_fileLoaded)
       => call.ret.label # "Dimensions"
    /\ (call.op = "GetUCSInfo" /\ ~pre.m_fileLoaded)
       => call.ret.label # "Origin"

\* A line that holds the marker of the beginning, or of the end, of a section.
IsDataLine(line) == find(line, "DATA;", 0) # npos

IsEndLine(line) == ~IsDataLine(line) /\ find(line, "ENDSEC;", 0) # npos

\* Line i is strictly between a DATA; line and the next ENDSEC; line.
InsideData(lines, i) ==
    /\ ~IsDataLine(lines[i]) /\ ~IsEndLine(lines[i])
    /\ \E j \in 1..(i - 1) :
          /\ IsDataLine(lines[j])
          /\ \A k \in (j + 1)..(i - 1) : ~IsEndLine(lines[k])

\* An inside-data line that holds a ';' ends a record.
EndsRecord(lines, i) == InsideData(lines, i) /\ find(lines[i], ";", 0) # npos

RECURSIVE LastEndBefore(_, _)
LastEndBefore(lines, i) ==
    IF i < 1 THEN 0
    ELSE IF EndsRecord(lines, i) THEN i
    ELSE LastEndBefore(lines, i - 1)

\* The inside-data lines from line i to line t, joined.
RECURSIVE JoinInside(_, _, _)
JoinInside(lines, i, t) ==
    IF i > t THEN <<>>
    ELSE IF InsideData(lines, i) THEN lines[i] \o JoinInside(lines, i + 1, t)
    ELSE JoinInside(lines, i + 1, t)

\* The record that line t ends: the inside-data lines after the record before.
RecordText(lines, t) == JoinInside(lines, LastEndBefore(lines, t - 1) + 1, t)

\* The records of a file, in the order of their last lines, from line i on.
RECURSIVE RecordTextsFrom(_, _)
RecordTextsFrom(lines, i) ==
    IF i > Len(lines) THEN <<>>
    ELSE IF EndsRecord(lines, i)
         THEN <<RecordText(lines, i)>> \o RecordTextsFrom(lines, i + 1)
    ELSE RecordTextsFrom(lines, i + 1)

RecordTexts(lines) == RecordTextsFrom(lines, 1)

\* The table after each record, in order, has been parsed into it.
RECURSIVE StoreAll(_, _)
StoreAll(texts, table) ==
    IF texts = <<>> THEN table
    ELSE StoreAll(Tail(texts), ParseEntityRecord(Head(texts), table))

\* C24: after a load that read a file, the entity table is what parsing the
\* records of the file gives, where a record is the inside-data lines (those
\* strictly between a DATA; line and the next ENDSEC; line) joined up to and
\* including the first one that holds a ';', the next record beginning empty
\* after it; lines outside the data section and marker lines contribute nothing.
C24_EntitiesFromDataRecords ==
    (LoadReturned /\ is_open(call.filename))
    => m_entities = StoreAll(RecordTexts(m_stepData), NoEntities)

\* A file was loaded that has records outside its data sections, a record of
\* several lines, and several records inside.
C24_Witness ==
    /\ LoadSucceeded
    /\ \E i \in 1..Len(m_stepData) :
          /\ ~InsideData(m_stepData, i)
          /\ find(m_stepData[i], "#", 0) # npos
    /\ \E t \in 1..Len(m_stepData) :
          /\ EndsRecord(m_stepData, t)
          /\ RecordText(m_stepData, t) # m_stepData[t]
    /\ Len(RecordTexts(m_stepData)) >= 3
    /\ DOMAIN m_entities = {1, 2, 3}

\* s.find(c) restricted to the positions after pos; npos when pos is npos.
FindAfter(s, c, pos) == IF pos = npos THEN npos ELSE find(s, c, pos + 1)

\* A record read with its delimiters in order: the first '#', the first '='
\* after it, the first '(' after that '='.
OrderedRecord(text, table) ==
    RecordAt(text, table, find(text, "#", 0),
             FindAfter(text, "=", find(text, "#", 0)),
             FindAfter(text, "(", FindAfter(text, "=", find(text, "#", 0))))

RECURSIVE OrderedStoreAll(_, _)
OrderedStoreAll(texts, table) ==
    IF texts = <<>> THEN table
    ELSE OrderedStoreAll(Tail(texts), OrderedRecord(Head(texts), table))

\* C22: every record is stored with the id that follows its first '#', the
\* type being the text, white space removed, between the first '=' after that
\* '#' and the first '(' after that '=', and the data beginning at that '(';
\* an '=' or a '(' before the '#', or a '(' before the '=', is not used.
C22_DelimitersInOrder ==
    (LoadReturned /\ is_open(call.filename))
    => m_entities = OrderedStoreAll(RecordTexts(m_stepData), NoEntities)

\* The world axis of the longest of three extents; on a tie X before Y before Z.
LongestAxis(dims) ==
    IF Ge(dims.x, dims.y) /\ Ge(dims.x, dims.z) THEN WorldX
    ELSE IF Ge(dims.y, dims.z) THEN WorldY
    ELSE WorldZ

\* C23: CreateUCS after a successful load of a file whose points are well
\* formed and span a positive extent on every axis leaves as zAxis the world
\* axis along which the coordinates of the points have the longest extent, X
\* before Y before Z on a tie.
C23_ZAxisIsLongestPointExtent ==
    (/\ call.op = "CreateUCS"
     /\ pre.m_fileLoaded
     /\ ~empty(m_entities)
     /\ WellFormedSolid(m_entities))
    => m_ucs.zAxis = LongestAxis(dimensions(PointExtent(m_entities)))

\* The record holds a '#', an '=' and a '('.
HasDelimiters(text) ==
    /\ find(text, "#", 0) # npos
    /\ find(text, "=", 0) # npos
    /\ find(text, "(", 0) # npos

\* The table after each record of texts, all with their delimiters, is stored.
RECURSIVE StoreComplete(_, _)
StoreComplete(texts, table) ==
    IF texts = <<>> THEN table
    ELSE StoreComplete(Tail(texts),
                       EmplaceEntity(table,
                                     EntityAt(Head(texts), find(Head(texts), "#", 0),
                                              find(Head(texts), "=", 0),
                                              find(Head(texts), "(", 0))))

\* C25: a terminated record that lacks a '#', an '=' or a '(' is dropped: the
\* table a load leaves is the one the other records alone give, in their order
\* (no entry added or changed by the dropped record, the records after it
\* parsed), and the load succeeds exactly when that table is not empty.
C25_IncompleteRecordDropped ==
    (LoadReturned /\ is_open(call.filename))
    => /\ m_entities
          = StoreComplete(SelectSeq(RecordTexts(m_stepData), HasDelimiters), NoEntities)
       /\ call.ret = ~empty(m_entities)

\* A load succeeded on a file with records that lack a delimiter between two
\* records that are stored.
C25_Witness ==
    /\ LoadSucceeded
    /\ \E i, j, k \in 1..Len(RecordTexts(m_stepData)) :
          /\ i < j /\ j < k
          /\ HasDelimiters(RecordTexts(m_stepData)[i])
          /\ ~HasDelimiters(RecordTexts(m_stepData)[j])
          /\ HasDelimiters(RecordTexts(m_stepData)[k])
    /\ DOMAIN m_entities = {1, 2}

\* The record's first '#' is immediately followed by the unsigned numeral k.
IdDigitsAre(text, k) ==
    /\ find(text, "#", 0) # npos
    /\ find(text, "#", 0) + 2 <= Len(text)
    /\ text[find(text, "#", 0) + 2] = Numeral(k)

\* C26: every stored entity has a strictly positive id, the id is its key, and
\* it is the number the unsigned decimal digits immediately after the '#' of
\* one of the file's records denote; a record whose '#' is followed by no
\* digit, or by a sign, is not stored under the id 0 or a negative id.
C26_IdsArePositiveDigits ==
    \A k \in DOMAIN m_entities :
        /\ k > 0
        /\ m_entities[k].id = k
        /\ \E i \in 1..Len(RecordTexts(m_stepData)) :
              IdDigitsAre(RecordTexts(m_stepData)[i], k)

\* Coordinate c lies between lo and hi.
Within(c, lo, hi) == Ge(c, lo) /\ Ge(hi, c)

\* C27 as stated: after a successful load the mesh is the box the builder was
\* asked for, centred at the origin: every vertex has the coordinates +-w/2,
\* +-h/2, +-d/2 exactly, and every vertex lies inside the session's bounding box.
C27_MeshIsCentredBoxInBounds ==
    LoadSucceeded
    => \A t \in 1..(Len(m_mesh.vertices) \div 3) :
          /\ AbsR(m_mesh.vertices[3 * t - 2]) = Half(call.dims[1])
          /\ AbsR(m_mesh.vertices[3 * t - 1]) = Half(call.dims[2])
          /\ AbsR(m_mesh.vertices[3 * t]) = Half(call.dims[3])
          /\ Within(m_mesh.vertices[3 * t - 2], m_boundingBox.min.x, m_boundingBox.max.x)
          /\ Within(m_mesh.vertices[3 * t - 1], m_boundingBox.min.y, m_boundingBox.max.y)
          /\ Within(m_mesh.vertices[3 * t], m_boundingBox.min.z, m_boundingBox.max.z)

\* The vertices of the mesh, as triples.
MeshVertices(mesh) ==
    {<<mesh.vertices[3 * t - 2], mesh.vertices[3 * t - 1], mesh.vertices[3 * t]>> :
        t \in 1..(Len(mesh.vertices) \div 3)}

\* C27, amended: after a successful load the vertices of the mesh are the eight
\* corners (+-w/2, +-h/2, +-d/2) of the box the builder was asked for, each
\* coordinate rounded to single precision as the vertex buffer stores it, and
\* the session's bounding box covers the eight corners before rounding; a
\* vertex lies inside the bounding box when rounding does not change it.
C27_MeshIsFloatBoxInBounds ==
    LoadSucceeded
    => /\ MeshVertices(m_mesh)
          = {<<x, y, z>> :
                x \in {ToFloat(Half(call.dims[1])), Neg(ToFloat(Half(call.dims[1])))},
                y \in {ToFloat(Half(call.dims[2])), Neg(ToFloat(Half(call.dims[2])))},
                z \in {ToFloat(Half(call.dims[3])), Neg(ToFloat(Half(call.dims[3])))}}
       /\ Within(Half(call.dims[1]), m_boundingBox.min.x, m_boundingBox.max.x)
       /\ Within(Neg(Half(call.dims[1])), m_boundingBox.min.x, m_boundingBox.max.x)
       /\ Within(Half(call.dims[2]), m_boundingBox.min.y, m_boundingBox.max.y)
       /\ Within(Neg(Half(call.dims[2])), m_boundingBox.min.y, m_boundingBox.max.y)
       /\ Within(Half(call.dims[3]), m_boundingBox.min.z, m_boundingBox.max.z)
       /\ Within(Neg(Half(call.dims[3])), m_boundingBox.min.z, m_boundingBox.max.z)
       /\ \A v \in MeshVertices(m_mesh) :
             /\ AbsR(v[1]) = Half(call.dims[1])
                => Within(v[1], m_boundingBox.min.x, m_boundingBox.max.x)
             /\ AbsR(v[2]) = Half(call.dims[2])
                => Within(v[2], m_boundingBox.min.y, m_boundingBox.max.y)
             /\ AbsR(v[3]) = Half(call.dims[3])
                => Within(v[3], m_boundingBox.min.z, m_boundingBox.max.z)

\* A load succeeded whose mesh has a vertex that rounding moved out of the
\* bounding box.
C27_Witness ==
    /\ LoadSucceeded
    /\ Len(m_mesh.vertices) > 0
    /\ \E v \in MeshVertices(m_mesh) :
          /\ AbsR(v[1]) # Half(call.dims[1])
          /\ ~Within(v[1], m_boundingBox.min.x, m_boundingBox.max.x)

\* C28: the loaded flag is false in a new session, changes only from false to
\* true and only in a LoadSTEPFile that returns success (which always leaves it
\* true), and once true is reset by no later operation, a failed load included.
C28_LoadedOnlyBySuccessfulLoad ==
    /\ ~m_fileLoaded
    /\ [][/\ m_fileLoaded => m_fileLoaded'
          /\ (m_fileLoaded' # m_fileLoaded)
             => (call'.op = "LoadSTEPFile" /\ call'.ret)
          /\ (call'.op = "LoadSTEPFile" /\ call'.ret) => m_fileLoaded']_vars

\* A load failed on a session that an earlier load had made Loaded.
C28_Witness ==
    /\ LoadReturned
    /\ ~call.ret
    /\ pre.m_fileLoaded
    /\ m_fileLoaded

====
